---- MODULE Spec2Model ----
(***************************************************************************)
(* Model of src/app.py: a LINE webhook bot answering from a RAG chain that *)
(* is built once at import time (init_rag_system) and read by the request  *)
(* handlers (callback, handle_message, home).                              *)
(*                                                                         *)
(* External collaborators (Google Drive loader, splitter, embeddings,      *)
(* FAISS, RetrievalQA, LINE reply API) are modelled by their observable    *)
(* outcome: each call either returns or raises, chosen nondeterministically*)
(* and every call is recorded in a trace so that "was never called" can be *)
(* stated.                                                                 *)
(***************************************************************************)
EXTENDS Naturals, Sequences, FiniteSets

\* ---------------------------------------------------------------- bounds
MaxReq == 1
MaxEvents == 2
MaxDocs == 1
MaxConc == 2

\* ------------------------------------------------------------- constants
None == "None"
CREDENTIALS_PATH == "/etc/secrets/credentials.json"
local_path == "credentials.json"
NotReadyMsg == "not-ready-fallback"
ProcessingErrorMsg == "processing-error-fallback"
HomeGreeting == "Hello, Line Bot is running!"
LINE_CHANNEL_SECRET == "channel-secret"
ForgedSecret == "forged-secret"
Chain == "RetrievalQA"

Texts == {"q1", "q2"}
TextEvent(t) == [kind |-> "text", text |-> t]
OtherEvent == [kind |-> "other", text |-> ""]
Events == {TextEvent(t) : t \in Texts} \cup {OtherEvent}
Bodies == UNION {[1..n -> Events] : n \in 0..MaxEvents}
CapturedBodies == {<<TextEvent("q1")>>}
Reqs == 1..MaxReq
\* the concurrency specification: more requests in flight, one event each
ConcReqs == 1..MaxConc
ConcBodies == {b \in Bodies : Len(b) <= 1}

VARIABLES
    pc,           \* position of the main thread (module import, then serving)
    credsDeploy,  \* file exists at CREDENTIALS_PATH
    credsLocal,   \* file exists at local_path
    auth_path,    \* local of init_rag_system
    docs,         \* local of init_rag_system: number of documents, or None
    qa_chain,     \* the module global
    initTrace,    \* external calls made by init_rag_system, in order
    initFailedAt, \* stage whose call raised, or None
    initRaised,   \* an exception left init_rag_system
    initRuns,     \* number of invocations of init_rag_system
    assigns,      \* number of assignments to qa_chain
    req           \* per request: position, locals, response, call traces

vars == <<pc, credsDeploy, credsLocal, auth_path, docs, qa_chain, initTrace,
          initFailedAt, initRaised, initRuns, assigns, req>>

initVars == <<auth_path, docs, initTrace, initFailedAt, initRaised, initRuns>>
envVars == <<credsDeploy, credsLocal>>

\* ------------------------------------------------------ init_rag_system
\* line 57: what `not docs` sees of the loaded documents
Emptiness(n) == IF n = 0 THEN "empty" ELSE "nonempty"

\* one external call: its name, the credentials path it was given, what it
\* returned as far as the code looks at it, and whether it returned
Call(op, path, ret, ok) == [op |-> op, path |-> path, ret |-> ret, ok |-> ok]

ResolveLocalFirst(dep, loc) ==
    IF loc THEN local_path
    ELSE IF dep THEN CREDENTIALS_PATH
    ELSE None
\* lines 35-45: the deployment path wins, then the local path, else nothing
ResolveAuthPath(dep, loc) ==
    IF dep THEN CREDENTIALS_PATH
    ELSE IF loc THEN local_path
    ELSE None

AfterCredsAlwaysLoad(path) == "init_loader"
\* lines 43-45: without credentials the function returns
AfterCreds(path) == IF path = None THEN "init_done" ELSE "init_loader"

AfterLoadNoEmptyCheck(n) == "init_split"
\* lines 57-59: `if not docs: return`
AfterLoad(n) == IF n = 0 THEN "init_done" ELSE "init_split"

InTryLoadOnly(stage) == stage \in {"init_loader", "init_load"}
\* lines 48-78: the try block covers every stage from the loader on
InTry(stage) ==
    stage \in {"init_loader", "init_load", "init_split", "init_embed", "init_chain"}

StageOp(stage, ok) ==
    CASE stage = "init_loader" -> Call("GoogleDriveLoader", auth_path, None, ok)
      [] stage = "init_load" -> Call("load", None, None, ok)
      [] stage = "init_split" -> Call("split_documents", None, None, ok)
      [] stage = "init_embed" -> Call("FAISS.from_documents", None, None, ok)
      [] stage = "init_chain" -> Call("RetrievalQA.from_chain_type", None, None, ok)

\* line 81: the module calls init_rag_system()
InitEnter ==
    /\ pc = "import"
    /\ pc' = "init_creds"
    /\ initRuns' = initRuns + 1
    /\ UNCHANGED <<envVars, auth_path, docs, qa_chain, initTrace, initFailedAt,
                   initRaised, assigns, req>>

\* the locals of init_rag_system die when it returns
Leaving(next) == next \in {"init_done", "crashed"}

InitCheckCreds ==
    /\ pc = "init_creds"
    /\ LET path == ResolveAuthPath(credsDeploy, credsLocal)
           next == AfterCreds(path)
       IN /\ pc' = next
          /\ auth_path' = IF Leaving(next) THEN None ELSE path
    /\ UNCHANGED <<envVars, docs, qa_chain, initTrace, initFailedAt, initRaised,
                   initRuns, assigns, req>>

\* lines 50-54
InitLoader ==
    /\ pc = "init_loader"
    /\ initTrace' = Append(initTrace, StageOp("init_loader", TRUE))
    /\ pc' = "init_load"
    /\ UNCHANGED <<envVars, auth_path, docs, qa_chain, initFailedAt, initRaised,
                   initRuns, assigns, req>>

\* lines 55-59
InitLoad ==
    /\ pc = "init_load"
    /\ \E n \in 0..MaxDocs :
         LET next == AfterLoad(n)
         IN /\ initTrace' = Append(initTrace, Call("load", None, Emptiness(n), TRUE))
            /\ pc' = next
            /\ docs' = IF Leaving(next) THEN None ELSE n
            /\ auth_path' = IF Leaving(next) THEN None ELSE auth_path
    /\ UNCHANGED <<envVars, qa_chain, initFailedAt, initRaised, initRuns,
                   assigns, req>>

InitSplitSkipsIndex ==
    /\ pc = "init_split"
    /\ initTrace' = Append(initTrace, StageOp("init_split", TRUE))
    /\ pc' = "init_chain"
    /\ UNCHANGED <<envVars, auth_path, docs, qa_chain, initFailedAt, initRaised,
                   initRuns, assigns, req>>
\* lines 62-63
InitSplit ==
    /\ pc = "init_split"
    /\ initTrace' = Append(initTrace, StageOp("init_split", TRUE))
    /\ pc' = "init_embed"
    /\ UNCHANGED <<envVars, auth_path, docs, qa_chain, initFailedAt, initRaised,
                   initRuns, assigns, req>>

\* lines 66-67
InitEmbed ==
    /\ pc = "init_embed"
    /\ initTrace' = Append(initTrace, StageOp("init_embed", TRUE))
    /\ pc' = "init_chain"
    /\ UNCHANGED <<envVars, auth_path, docs, qa_chain, initFailedAt, initRaised,
                   initRuns, assigns, req>>

\* lines 70-75: the only assignment to the global
InitChain ==
    /\ pc = "init_chain"
    /\ initTrace' = Append(initTrace, StageOp("init_chain", TRUE))
    /\ qa_chain' = Chain
    /\ assigns' = assigns + 1
    /\ pc' = "init_done"
    /\ auth_path' = None
    /\ docs' = None
    /\ UNCHANGED <<envVars, initFailedAt, initRaised, initRuns, req>>

\* lines 77-78: the call of the current stage raises
InitFail ==
    /\ pc \in {"init_loader", "init_load", "init_split", "init_embed", "init_chain"}
    /\ initTrace' = Append(initTrace, StageOp(pc, FALSE))
    /\ initFailedAt' = pc
    /\ IF InTry(pc)
       THEN /\ pc' = "init_done"
            /\ initRaised' = FALSE
       ELSE /\ pc' = "crashed"
            /\ initRaised' = TRUE
    /\ auth_path' = None
    /\ docs' = None
    /\ UNCHANGED <<envVars, qa_chain, initRuns, assigns, req>>

ServingWhileInit(p) == p \notin {"import", "crashed"}
\* lines 81, 117-118: requests are served once the module body has run
ServingEnabled(p) == p = "serving"

\* lines 83-118: init_rag_system() has returned, the routes are registered
StartServing ==
    /\ pc = "init_done"
    /\ pc' = "serving"
    /\ UNCHANGED <<envVars, initVars, qa_chain, assigns, req>>

\* ------------------------------------------------------------- requests
NoSig == [key |-> None, msg |-> <<>>]
NoReq ==
    [st |-> "none", route |-> None, body |-> <<>>, sig |-> NoSig, idx |-> 0,
     reply_text |-> None, run |-> None, resp |-> 0, out |-> None,
     handled |-> <<>>, chainCalls |-> <<>>, replies |-> <<>>]

\* HMAC of the body under a key, as a collision-free tag
Sign(key, body) == [key |-> key, msg |-> body]

ValidateKeyOnly(body, signature) == signature.key = LINE_CHANNEL_SECRET
\* line 88: WebhookHandler.handle checks the signature against body and secret
Validate(body, signature) == signature = Sign(LINE_CHANNEL_SECRET, body)

SigChoices(body) ==
    {Sign(LINE_CHANNEL_SECRET, body), Sign(ForgedSecret, body)}
        \cup {Sign(LINE_CHANNEL_SECRET, b) : b \in CapturedBodies}

\* line 97: only text message events have a handler; index of the next one
NextText(body, i) ==
    LET S == {j \in i..Len(body) : body[j].kind = "text"}
    IN IF S = {} THEN 0 ELSE CHOOSE j \in S : \A k \in S : j <= k

ReplyTokenShared(r, i) == <<1, i>>
\* line 113: event.reply_token, unique per delivered event
ReplyToken(r, i) == <<r, i>>

\* line 105: what qa_chain.run returns for a query
Answer(text) == "answer:" \o text

TruthyAlways(chain) == TRUE
\* line 102: `if qa_chain:`
Truthy(chain) == chain # None

ReplyTextNoCatch(chain, text, outcome) ==
    IF Truthy(chain)
    THEN IF outcome = "ok" THEN Answer(text) ELSE None
    ELSE NotReadyMsg
\* lines 102-110: the text handle_message replies with
ReplyTextFor(chain, text, outcome) ==
    IF Truthy(chain)
    THEN IF outcome = "ok" THEN Answer(text) ELSE ProcessingErrorMsg
    ELSE NotReadyMsg

ChainClearedOnError(chain, outcome) == IF outcome = "raised" THEN None ELSE chain
\* lines 98-115: handle_message has no assignment to the global
ChainAfterRun(chain, outcome) == chain

\* a request arrives at POST /callback, its body one of B
ReceiveFrom(r, B) ==
    /\ ServingEnabled(pc)
    /\ req[r].st = "none"
    /\ IF r = 1 THEN TRUE ELSE req[r - 1].st # "none"
    /\ \E body \in B : \E sig \in SigChoices(body) :
         req' = [req EXCEPT ![r] = [@ EXCEPT !.st = "received",
                                              !.route = "callback",
                                              !.body = body, !.sig = sig]]
    /\ UNCHANGED <<pc, envVars, initVars, qa_chain, assigns>>

Receive(r) == ReceiveFrom(r, Bodies)
ReceiveConc(r) == ReceiveFrom(r, ConcBodies)

\* a request arrives at POST /callback without an X-Line-Signature header
ReceiveNoSignature(r) ==
    /\ ServingEnabled(pc)
    /\ req[r].st = "none"
    /\ IF r = 1 THEN TRUE ELSE req[r - 1].st # "none"
    /\ req' = [req EXCEPT ![r] = [@ EXCEPT !.st = "received",
                                          !.route = "callback"]]
    /\ UNCHANGED <<pc, envVars, initVars, qa_chain, assigns>>

\* line 85: the header lookup raises KeyError before the body is read or
\* the handler is called; nothing catches it, the view fails
CallbackMissingHeader(r) ==
    /\ req[r].st = "received"
    /\ req[r].route = "callback"
    /\ req[r].sig = NoSig
    /\ req' = [req EXCEPT ![r] = [@ EXCEPT !.st = "done", !.resp = 500,
                                          !.out = "Internal Server Error"]]
    /\ UNCHANGED <<pc, envVars, initVars, qa_chain, assigns>>

\* lines 85-90: InvalidSignatureError -> abort(400)
CallbackReject(r) ==
    /\ req[r].st = "received"
    /\ req[r].route = "callback"
    /\ req[r].sig # NoSig
    /\ ~Validate(req[r].body, req[r].sig)
    /\ req' = [req EXCEPT ![r] = [@ EXCEPT !.st = "done", !.resp = 400,
                                          !.out = "Bad Request"]]
    /\ UNCHANGED <<pc, envVars, initVars, qa_chain, assigns>>

\* the handler moves to text event j, or returns 'OK' when none is left
Dispatch(q, j) ==
    IF j = 0
    THEN [q EXCEPT !.st = "done", !.resp = 200, !.out = "OK", !.idx = 0,
                   !.reply_text = None, !.run = None]
    ELSE [q EXCEPT !.st = "answer", !.idx = j, !.reply_text = None, !.run = None,
                   !.handled = Append(@, j)]

\* lines 85-88, 91: the signature validates, events are dispatched in order
CallbackAccept(r) ==
    /\ req[r].st = "received"
    /\ req[r].route = "callback"
    /\ Validate(req[r].body, req[r].sig)
    /\ req' = [req EXCEPT ![r] = Dispatch(@, NextText(@.body, 1))]
    /\ UNCHANGED <<pc, envVars, initVars, qa_chain, assigns>>

\* lines 99-110
HandleMessageAnswer(r) ==
    /\ req[r].st = "answer"
    /\ LET user_text == req[r].body[req[r].idx].text
       IN IF Truthy(qa_chain)
          THEN \E outcome \in {"ok", "raised"} :
                 /\ req' = [req EXCEPT ![r] =
                              [@ EXCEPT !.st = "reply",
                                        !.run = outcome,
                                        !.chainCalls = Append(@, user_text),
                                        !.reply_text =
                                            ReplyTextFor(qa_chain, user_text, outcome)]]
                 /\ qa_chain' = ChainAfterRun(qa_chain, outcome)
          ELSE /\ req' = [req EXCEPT ![r] =
                            [@ EXCEPT !.st = "reply",
                                      !.run = "skipped",
                                      !.reply_text =
                                          ReplyTextFor(qa_chain, user_text, "skipped")]]
               /\ qa_chain' = qa_chain
    /\ UNCHANGED <<pc, envVars, initVars, assigns>>

Sent(r, ok) == [token |-> ReplyToken(r, req[r].idx), text |-> req[r].reply_text, ok |-> ok]

\* lines 112-115, then back in handler.handle: next event or line 91
HandleMessageReplyOk(r) ==
    /\ req[r].st = "reply"
    /\ req' = [req EXCEPT ![r] =
                 Dispatch([@ EXCEPT !.replies = Append(@, Sent(r, TRUE))],
                          NextText(@.body, @.idx + 1))]
    /\ UNCHANGED <<pc, envVars, initVars, qa_chain, assigns>>

\* lines 112-115: reply_message raises; nothing catches it, the view fails
HandleMessageReplyFail(r) ==
    /\ req[r].st = "reply"
    /\ req' = [req EXCEPT ![r] =
                 [@ EXCEPT !.st = "done", !.resp = 500,
                           !.out = "Internal Server Error",
                           !.replies = Append(@, Sent(r, FALSE))]]
    /\ UNCHANGED <<pc, envVars, initVars, qa_chain, assigns>>

\* a request arrives at GET /
ReceiveHome(r) ==
    /\ ServingEnabled(pc)
    /\ req[r].st = "none"
    /\ IF r = 1 THEN TRUE ELSE req[r - 1].st # "none"
    /\ req' = [req EXCEPT ![r] = [@ EXCEPT !.st = "received", !.route = "home"]]
    /\ UNCHANGED <<pc, envVars, initVars, qa_chain, assigns>>

HomeGated(r) ==
    /\ req[r].st = "received"
    /\ req[r].route = "home"
    /\ req' = [req EXCEPT ![r] =
                 IF qa_chain = None
                 THEN [@ EXCEPT !.st = "done", !.resp = 503,
                                !.out = "Service Unavailable"]
                 ELSE [@ EXCEPT !.st = "done", !.resp = 200,
                                !.out = HomeGreeting]]
    /\ UNCHANGED <<pc, envVars, initVars, qa_chain, assigns>>
\* lines 93-95
Home(r) ==
    /\ req[r].st = "received"
    /\ req[r].route = "home"
    /\ req' = [req EXCEPT ![r] = [@ EXCEPT !.st = "done", !.resp = 200,
                                          !.out = HomeGreeting]]
    /\ UNCHANGED <<pc, envVars, initVars, qa_chain, assigns>>

Init ==
    /\ pc = "import"
    /\ credsDeploy \in BOOLEAN
    /\ credsLocal \in BOOLEAN
    /\ auth_path = None
    /\ docs = None
    /\ qa_chain = None
    /\ initTrace = <<>>
    /\ initFailedAt = None
    /\ initRaised = FALSE
    /\ initRuns = 0
    /\ assigns = 0
    /\ req = [r \in Reqs |-> NoReq]

Next ==
    \/ InitEnter
    \/ InitCheckCreds
    \/ InitLoader
    \/ InitLoad
    \/ InitSplit
    \/ InitEmbed
    \/ InitChain
    \/ InitFail
    \/ StartServing
    \/ \E r \in Reqs : ReceiveHome(r)
    \/ \E r \in Reqs : Home(r)
    \/ \E r \in Reqs : Receive(r)
    \/ \E r \in Reqs : ReceiveNoSignature(r)
    \/ \E r \in Reqs : CallbackMissingHeader(r)
    \/ \E r \in Reqs : CallbackReject(r)
    \/ \E r \in Reqs : CallbackAccept(r)
    \/ \E r \in Reqs : HandleMessageAnswer(r)
    \/ \E r \in Reqs : HandleMessageReplyOk(r)
    \/ \E r \in Reqs : HandleMessageReplyFail(r)

Spec == Init /\ [][Next]_vars

\* The same program with MaxConc requests that may all be in flight at once,
\* each delivering at most one event.
InitConc ==
    /\ pc = "import"
    /\ credsDeploy \in BOOLEAN
    /\ credsLocal \in BOOLEAN
    /\ auth_path = None
    /\ docs = None
    /\ qa_chain = None
    /\ initTrace = <<>>
    /\ initFailedAt = None
    /\ initRaised = FALSE
    /\ initRuns = 0
    /\ assigns = 0
    /\ req = [r \in ConcReqs |-> NoReq]

NextConc ==
    \/ InitEnter
    \/ InitCheckCreds
    \/ InitLoader
    \/ InitLoad
    \/ InitSplit
    \/ InitEmbed
    \/ InitChain
    \/ InitFail
    \/ StartServing
    \/ \E r \in ConcReqs : ReceiveHome(r)
    \/ \E r \in ConcReqs : Home(r)
    \/ \E r \in ConcReqs : ReceiveConc(r)
    \/ \E r \in ConcReqs : ReceiveNoSignature(r)
    \/ \E r \in ConcReqs : CallbackMissingHeader(r)
    \/ \E r \in ConcReqs : CallbackReject(r)
    \/ \E r \in ConcReqs : CallbackAccept(r)
    \/ \E r \in ConcReqs : HandleMessageAnswer(r)
    \/ \E r \in ConcReqs : HandleMessageReplyOk(r)
    \/ \E r \in ConcReqs : HandleMessageReplyFail(r)

SpecConc == InitConc /\ [][NextConc]_vars

\* ------------------------------------------------------------ properties
InitOver == pc \in {"init_done", "serving"}
Started(r) == req[r].st # "none"
Finished(r) == req[r].st = "done"
\* the signature was computed over exactly this body with the channel secret
SigMatches(r) ==
    /\ req[r].sig.key = LINE_CHANNEL_SECRET
    /\ req[r].sig.msg = req[r].body
Called(op) == \E i \in 1..Len(initTrace) : initTrace[i].op = op
EmptyFetch ==
    \E i \in 1..Len(initTrace) :
        /\ initTrace[i].op = "load"
        /\ initTrace[i].ok
        /\ initTrace[i].ret = "empty"
TextIdx(r) == {i \in 1..Len(req[r].body) : req[r].body[i].kind = "text"}
RepliesTo(r, tok) == {k \in 1..Len(req[r].replies) : req[r].replies[k].token = tok}

\* C1: whichever stage of init_rag_system raises, the exception does not leave
\* the function: it returns with qa_chain still None and the process can go on
\* to serve.
C1_InitErrorsCaught ==
    /\ ~initRaised
    /\ pc # "crashed"
    /\ initFailedAt # None => (InitOver /\ qa_chain = None)
    /\ pc = "init_done" => ENABLED StartServing

C1_Witness ==
    /\ initFailedAt = "init_chain"
    /\ pc = "serving"
    /\ \E r \in Reqs : Finished(r) /\ req[r].resp = 200

\* C2: with the credentials file at neither path, initialization ends with
\* qa_chain None and neither the loader constructor nor load() was called.
C2_NoCredsNoFetch ==
    (~credsDeploy /\ ~credsLocal /\ pc \notin {"import", "init_creds"}) =>
        /\ InitOver
        /\ qa_chain = None
        /\ initTrace = <<>>

C2_Witness == ~credsDeploy /\ ~credsLocal /\ pc = "serving" /\ initTrace = <<>>

\* C3: when load() returns no documents, initialization ends NotReady without
\* calling the splitter, the index build or the chain constructor, and every
\* later reply is the not-ready fallback with no call of the chain.
C3_EmptyFetchNotReady ==
    EmptyFetch =>
        /\ InitOver
        /\ qa_chain = None
        /\ ~Called("split_documents")
        /\ ~Called("FAISS.from_documents")
        /\ ~Called("RetrievalQA.from_chain_type")
        /\ \A r \in Reqs :
             /\ req[r].chainCalls = <<>>
             /\ req[r].st = "reply" => req[r].reply_text = NotReadyMsg
             /\ \A k \in 1..Len(req[r].replies) :
                  req[r].replies[k].text = NotReadyMsg

C3_Witness ==
    /\ EmptyFetch
    /\ \E r \in Reqs : Finished(r) /\ Len(req[r].replies) = 2

\* C4: a request whose signature does not match its body is answered 400 and
\* handle_message never runs for it: no chain call, no reply; no event is
\* handled before the signature has been checked. (A request that carries no
\* signature header at all never reaches validation; it too runs no handler.)
C4_InvalidSignatureRejected ==
    \A r \in Reqs :
        /\ req[r].st = "received" => req[r].handled = <<>>
        /\ (Started(r) /\ req[r].route = "callback" /\ ~SigMatches(r)) =>
             /\ req[r].st \in {"received", "done"}
             /\ (Finished(r) /\ req[r].sig # NoSig) => req[r].resp = 400
             /\ req[r].handled = <<>>
             /\ req[r].chainCalls = <<>>
             /\ req[r].replies = <<>>

C4_Witness ==
    \E r \in Reqs :
        /\ Finished(r)
        /\ req[r].route = "callback"
        /\ req[r].resp = 400
        /\ req[r].sig.key = LINE_CHANNEL_SECRET
        /\ req[r].sig.msg # req[r].body
        /\ TextIdx(r) # {}

\* C5: every request whose signature validates is answered 200, whatever
\* fails downstream (chain, not-ready path, reply delivery).
C5_ValidAlways200 ==
    \A r \in Reqs :
        (Finished(r) /\ req[r].route = "callback" /\ SigMatches(r)) =>
            (req[r].resp = 200 /\ req[r].out = "OK")

\* C6: when the chain is set and qa_chain.run raises, the reply text is the
\* processing-error fallback; the reply step never gets an absent text.
C6_RunErrorBecomesFallback ==
    \A r \in Reqs :
        /\ req[r].st = "reply" =>
             /\ req[r].reply_text # None
             /\ req[r].run = "raised" => req[r].reply_text = ProcessingErrorMsg
        /\ \A k \in 1..Len(req[r].replies) : req[r].replies[k].text # None

C6_Witness ==
    \E r \in Reqs :
        /\ qa_chain = Chain
        /\ req[r].run = "raised"
        /\ req[r].st = "reply"
        /\ req[r].reply_text = ProcessingErrorMsg

\* C7: qa_chain is assigned at most once, by init_rag_system only; once
\* initialization is over no step changes it.
C7_ChainAssignedOnce ==
    [][/\ InitOver => qa_chain' = qa_chain
       /\ qa_chain' # qa_chain => (pc = "init_chain" /\ qa_chain = None)
       /\ assigns' <= 1]_vars

C7_Witness ==
    /\ pc = "serving"
    /\ qa_chain = Chain
    /\ \E r \in Reqs :
         /\ Finished(r)
         /\ Len(req[r].chainCalls) = 2
         /\ \E k \in 1..Len(req[r].replies) :
              req[r].replies[k].text = ProcessingErrorMsg

\* C8: init_rag_system runs once and has returned before any request is
\* handled: a request in progress never coexists with initialization.
C8_InitBeforeServing ==
    /\ initRuns <= 1
    /\ pc # "import" => initRuns = 1
    /\ \A r \in Reqs : Started(r) => pc = "serving"

C8_Witness ==
    /\ pc = "serving"
    /\ initRuns = 1
    /\ \E r \in Reqs : req[r].st = "answer"

\* C9: each text event of a request whose signature validates gets exactly
\* one reply_message call, to its own token, carrying the chain's answer or
\* one of the two fallbacks.
C9_OneReplyPerEvent ==
    \A r \in Reqs :
        (Finished(r) /\ req[r].route = "callback" /\ SigMatches(r)) =>
            \A i \in TextIdx(r) :
                /\ Cardinality(RepliesTo(r, <<r, i>>)) = 1
                /\ \A k \in RepliesTo(r, <<r, i>>) :
                     req[r].replies[k].text \in
                         {"answer:" \o req[r].body[i].text, NotReadyMsg,
                          ProcessingErrorMsg}

\* C10: while qa_chain is None after initialization, every query is answered
\* with the same not-ready fallback and the chain is never called.
C10_NotReadyFixedFallback ==
    (InitOver /\ qa_chain = None) =>
        \A r \in Reqs :
            /\ req[r].chainCalls = <<>>
            /\ req[r].run \in {None, "skipped"}
            /\ req[r].st = "reply" => req[r].reply_text = NotReadyMsg
            /\ \A k \in 1..Len(req[r].replies) :
                 req[r].replies[k].text = NotReadyMsg

C10_Witness ==
    /\ qa_chain = None
    /\ initFailedAt = "init_embed"
    /\ \E r \in Reqs :
         /\ Finished(r)
         /\ Len(req[r].replies) = 2
         /\ req[r].body[1].text # req[r].body[2].text

\* what handle_message may reply to a query, given the RAG state
OwnTexts(text) ==
    IF qa_chain = None
    THEN {NotReadyMsg}
    ELSE {"answer:" \o text, ProcessingErrorMsg}

\* C11: however concurrently handled requests interleave, no request step
\* changes qa_chain, and every reply a request sends goes to a token of one
\* of its own text events and carries a text determined by that event's text
\* and the RAG state, never another request's answer.
C11_RequestsIndependent ==
    [][/\ pc = "serving" => qa_chain' = qa_chain
       /\ \A r \in ConcReqs :
            /\ \A k \in 1..Len(req'[r].replies) :
                 LET m == req'[r].replies[k]
                 IN /\ m.token[1] = r
                    /\ m.token[2] \in TextIdx(r)
                    /\ m.text \in OwnTexts(req'[r].body[m.token[2]].text)
            /\ req'[r].st = "reply" =>
                 req'[r].reply_text \in OwnTexts(req'[r].body[req'[r].idx].text)]_vars

C11_Witness ==
    /\ qa_chain = Chain
    /\ req[1].st = "reply"
    /\ req[2].st = "reply"
    /\ req[1].body # req[2].body
    /\ req[1].reply_text = "answer:q1"
    /\ req[2].reply_text = "answer:q2"

\* C12: GET / answers 200 with the static greeting whatever the RAG state,
\* and handling it changes neither qa_chain nor any call trace.
C12_HomeStatic ==
    [][\A r \in Reqs :
         (req[r].route = "home" /\ req[r].st = "received" /\ req'[r].st = "done") =>
             /\ req'[r].resp = 200
             /\ req'[r].out = HomeGreeting
             /\ qa_chain' = qa_chain
             /\ initTrace' = initTrace
             /\ req'[r].chainCalls = <<>>
             /\ req'[r].replies = <<>>
             /\ req'[r].handled = <<>>]_vars

C12_Witness ==
    /\ qa_chain = None
    /\ initFailedAt = "init_load"
    /\ \E r \in Reqs :
         /\ req[r].route = "home"
         /\ Finished(r)
         /\ req[r].resp = 200
         /\ req[r].out = HomeGreeting

LoaderCalls == {i \in 1..Len(initTrace) : initTrace[i].op = "GoogleDriveLoader"}

\* C13: the loader gets the deployment path whenever that file exists (also
\* when both exist) and the local path exactly when only the local file
\* exists.
C13_DeploymentPathFirst ==
    \A i \in LoaderCalls :
        /\ credsDeploy \/ credsLocal
        /\ credsDeploy => initTrace[i].path = CREDENTIALS_PATH
        /\ initTrace[i].path = local_path <=> (~credsDeploy /\ credsLocal)
        /\ initTrace[i].path \in {CREDENTIALS_PATH, local_path}

C13_Witness ==
    /\ credsDeploy
    /\ credsLocal
    /\ \E i \in LoaderCalls : initTrace[i].path = CREDENTIALS_PATH

StageOrder ==
    <<"GoogleDriveLoader", "load", "split_documents", "FAISS.from_documents",
      "RetrievalQA.from_chain_type">>
AllStagesOk ==
    /\ Len(initTrace) = Len(StageOrder)
    /\ \A i \in 1..Len(initTrace) : initTrace[i].ok
    /\ initTrace[2].ret = "nonempty"

\* C14: the stages run in the order credentials, loader/fetch, chunk, index,
\* engine; nothing runs after a stage that raised or after an empty fetch;
\* after initialization qa_chain is set iff credentials were found, the fetch
\* returned documents and every stage returned.
C14_StagesInOrder ==
    /\ Len(initTrace) <= Len(StageOrder)
    /\ \A i \in 1..Len(initTrace) :
         /\ initTrace[i].op = StageOrder[i]
         /\ i < Len(initTrace) => (initTrace[i].ok /\ initTrace[i].ret # "empty")
    /\ initTrace # <<>> => (credsDeploy \/ credsLocal)
    /\ pc = "init_creds" => initTrace = <<>>
    /\ InitOver =>
         (qa_chain = Chain <=> ((credsDeploy \/ credsLocal) /\ AllStagesOk))
    /\ ~InitOver => qa_chain = None

C14_Witness ==
    /\ pc = "serving"
    /\ qa_chain = Chain
    /\ AllStagesOk

RunFailed(r) ==
    \/ req[r].run = "raised"
    \/ \E k \in 1..Len(req[r].replies) : req[r].replies[k].text = ProcessingErrorMsg

\* C15: after qa_chain.run has raised for a query the chain is still set, and
\* later queries call it again instead of getting the not-ready fallback.
C15_RunFailureKeepsChain ==
    (\E f \in Reqs : RunFailed(f)) =>
        /\ qa_chain = Chain
        /\ \A r \in Reqs :
             /\ Len(req[r].chainCalls) = Len(req[r].handled)
                    - (IF req[r].st = "answer" THEN 1 ELSE 0)
             /\ req[r].reply_text # NotReadyMsg
             /\ \A k \in 1..Len(req[r].replies) :
                  req[r].replies[k].text # NotReadyMsg

C15_Witness ==
    \E r \in Reqs :
        /\ Finished(r)
        /\ Len(req[r].replies) = 2
        /\ req[r].replies[1].text = ProcessingErrorMsg
        /\ req[r].replies[2].text = "answer:q2"
        /\ Len(req[r].chainCalls) = 2
        /\ qa_chain = Chain
====
